---- MODULE Spec2Model ----
(***************************************************************************)
(* Model of PDFToMarkdownConverter (garakPDFparser.py).                    *)
(*                                                                         *)
(* Numbers: every font size and every page coordinate is an integer count  *)
(* of hundredths of a point (12.0 pt is 1200), so that rounding a size to  *)
(* one decimal place (round(x, 1)) is a real operation on the value.       *)
(* A size of 0 stands for a character without a usable size (the key is    *)
(* absent, None or 0: char.get('size') is falsy).                          *)
(*                                                                         *)
(* Text: a str is a sequence of one-character strings, <<"a", " ", "b">>.  *)
(***************************************************************************)
EXTENDS Integers, Sequences, FiniteSets, TLC

VARIABLES
    font_sizes,        \* self.font_sizes: the Counter, as <<[size, n], ...>> in insertion order
    pc,                \* where the running call stands
    pdf,               \* the document of the running conversion: a sequence of pages
    page_num,          \* index (0-based) of the next page of the running loop
    markdown_content,  \* extract_text_with_formatting's list of page outputs
    conversions,       \* conversions started on this converter so far
    call,              \* arguments of the method under study (a record)
    ret                \* what the method under study returned

vars == <<font_sizes, pc, pdf, page_num, markdown_content, conversions, call, ret>>

\* An optional value (None or a value) is a sequence of no or one element.
None == <<>>
Some(x) == <<x>>

----------------------------------------------------------------------------
(* Generic helpers: Python built-ins the code relies on.                   *)

Range(s) == {s[i] : i \in 1..Len(s)}

Min(S) == CHOOSE x \in S : \A y \in S : x <= y
Max(S) == CHOOSE x \in S : \A y \in S : x >= y

Abs(x) == IF x < 0 THEN -x ELSE x

\* sep.join(parts) on strings
RECURSIVE Join(_, _)
Join(parts, sep) ==
    IF parts = <<>> THEN <<>>
    ELSE IF Len(parts) = 1 THEN parts[1]
    ELSE parts[1] \o sep \o Join(Tail(parts), sep)

\* the concatenation of a list of lists
RECURSIVE Flatten(_)
Flatten(ss) == IF ss = <<>> THEN <<>> ELSE ss[1] \o Flatten(Tail(ss))

\* tuple comparison (a1, a2) < (b1, b2)
PairLt(a, b) == a[1] < b[1] \/ (a[1] = b[1] /\ a[2] < b[2])

\* sorted(s, key=...), keys[i] being the key (a pair) of s[i]. Python's sort is
\* stable: an element comes after every element of smaller key and after the
\* earlier elements of equal key.
SortByKeys(s, keys) ==
    LET n == Len(s)
        pos(i) == 1 + Cardinality({j \in 1..n : PairLt(keys[j], keys[i])})
                    + Cardinality({j \in 1..(i - 1) : keys[j] = keys[i]})
    IN  [p \in 1..n |-> s[CHOOSE i \in 1..n : pos(i) = p]]

\* sorted(chars, key=lambda c: c['x0'])
SortedByX0(chars) == SortByKeys(chars, [i \in 1..Len(chars) |-> <<chars[i].x0, 0>>])

\* sorted(chars, key=lambda c: (c['top'], c['x0']))
SortedByTopX0(chars) ==
    SortByKeys(chars, [i \in 1..Len(chars) |-> <<chars[i].top, chars[i].x0>>])

\* str.strip() and the class \s of re, on the whitespace the model writes
IsSpace(ch) == ch \in {" ", "\t", "\n"}

\* text.strip(): from the first to the last character that is not whitespace
Strip(t) ==
    IF t = <<>> \/ (~IsSpace(t[1]) /\ ~IsSpace(t[Len(t)])) THEN t
    ELSE LET ks == {i \in 1..Len(t) : ~IsSpace(t[i])}
         IN  IF ks = {} THEN <<>> ELSE SubSeq(t, Min(ks), Max(ks))

EndsWith(t, ch) == t # <<>> /\ t[Len(t)] = ch

StartsWith(t, ch) == t # <<>> /\ t[1] = ch

\* round(float(size), 1) on positive hundredths: to the nearest tenth, a tie to
\* the even tenth.
Round1(s) ==
    LET q == s \div 10
        r == s % 10
    IN  IF r < 5 THEN 10 * q
        ELSE IF r > 5 THEN 10 * (q + 1)
        ELSE IF q % 2 = 0 THEN 10 * q ELSE 10 * (q + 1)

----------------------------------------------------------------------------
(* collections.Counter                                                     *)

CounterHas(c, k) == \E i \in 1..Len(c) : c[i].size = k

\* c[k] += 1
CounterAdd(c, k) ==
    IF CounterHas(c, k)
    THEN [i \in 1..Len(c) |-> IF c[i].size = k THEN [c[i] EXCEPT !.n = @ + 1] ELSE c[i]]
    ELSE Append(c, [size |-> k, n |-> 1])

\* c[k]
CounterGet(c, k) ==
    IF CounterHas(c, k) THEN (CHOOSE e \in Range(c) : e.size = k).n ELSE 0

\* Counter(values)
RECURSIVE CounterOf(_)
CounterOf(values) ==
    IF values = <<>> THEN <<>>
    ELSE CounterAdd(CounterOf(SubSeq(values, 1, Len(values) - 1)), values[Len(values)])

\* c.most_common(1)[0][0]: the first key, in insertion order, of maximal count
MostCommon(c) ==
    LET best == Max({c[i].n : i \in 1..Len(c)})
        first == Min({i \in 1..Len(c) : c[i].n = best})
    IN  c[first].size

----------------------------------------------------------------------------
(* _clean_text, _process_line, _is_heading, _format_as_heading             *)

\* re.sub(r'\s+', ' ', text): the first character of a run of whitespace
\* becomes a space, the others of the run go
CollapseSpaces(t) ==
    LET marked == [i \in 1..Len(t) |->
                      IF ~IsSpace(t[i]) THEN t[i]
                      ELSE IF i > 1 /\ IsSpace(t[i - 1]) THEN "" ELSE " "]
    IN  SelectSeq(marked, LAMBDA ch : ch # "")

_clean_text(text) == Strip(CollapseSpaces(text))

RECURSIVE LineText(_)
LineText(line) == IF line = <<>> THEN <<>> ELSE line[1].text \o LineText(Tail(line))

SizesOf(line) == SelectSeq([i \in 1..Len(line) |-> line[i].size], LAMBDA s : s # 0)

\* returns <<line_text, dominant_size>>
_process_line(line) ==
    IF line = <<>> THEN <<<<>>, 0>>
    ELSE LET sorted_line == SortedByX0(line)
             sizes == SizesOf(sorted_line)
         IN  <<LineText(sorted_line),
               IF sizes # <<>> THEN MostCommon(CounterOf(sizes)) ELSE 0>>

\* len(text.strip()) < 100
ShortLimit == 100

\* a variant of IsLarger: font_size > body_size * 1.1
IsLargerStrict(font_size, body_size) == 10 * font_size > 11 * body_size

\* font_size >= body_size * 1.1
IsLarger(font_size, body_size) == 10 * font_size >= 11 * body_size

IsShort(text) == Len(Strip(text)) < ShortLimit

NoPeriod(text) == ~EndsWith(Strip(text), ".") /\ ~EndsWith(Strip(text), ",")

_is_heading(font_size, text) ==
    IF font_sizes = <<>> THEN FALSE
    ELSE LET body_size == MostCommon(font_sizes)
         IN  /\ IsLarger(font_size, body_size)
             /\ font_size > body_size
             /\ (IsShort(text) \/ NoPeriod(text))

Hashes(depth) == [i \in 1..depth |-> "#"]

\* a variant of HeadingDepth: the second threshold is 1.8 instead of 1.7
HeadingDepthShifted(font_size, body_size) ==
    IF body_size <= 0 THEN 5
    ELSE IF 10 * font_size >= 20 * body_size THEN 1
    ELSE IF 10 * font_size >= 18 * body_size THEN 2
    ELSE IF 10 * font_size >= 14 * body_size THEN 3
    ELSE IF 10 * font_size >= 12 * body_size THEN 4
    ELSE 5

\* a variant of HeadingDepth: the ratio is computed even when body_size is 0,
\* where the division gives no finite ratio and the first comparison succeeds
HeadingDepthNoGuard(font_size, body_size) ==
    IF 10 * font_size >= 20 * body_size THEN 1
    ELSE IF 10 * font_size >= 17 * body_size THEN 2
    ELSE IF 10 * font_size >= 14 * body_size THEN 3
    ELSE IF 10 * font_size >= 12 * body_size THEN 4
    ELSE 5

\* the number of '#' the chain of size_ratio comparisons selects
HeadingDepth(font_size, body_size) ==
    IF body_size <= 0 THEN 5                        \* size_ratio = 1.0
    ELSE IF 10 * font_size >= 20 * body_size THEN 1
    ELSE IF 10 * font_size >= 17 * body_size THEN 2
    ELSE IF 10 * font_size >= 14 * body_size THEN 3
    ELSE IF 10 * font_size >= 12 * body_size THEN 4
    ELSE 5

_format_as_heading(text, font_size) ==
    IF font_sizes = <<>> THEN <<"#", "#", " ">> \o text
    ELSE Hashes(HeadingDepth(font_size, MostCommon(font_sizes))) \o <<" ">> \o text

----------------------------------------------------------------------------
(* _group_chars_into_lines                                                 *)

\* y_tolerance = 3
y_tolerance == 300

RECURSIVE SumCenters2(_)
\* sum(c['top'] + c['bottom'] for c in line)
SumCenters2(line) ==
    IF line = <<>> THEN 0 ELSE line[1].top + line[1].bottom + SumCenters2(Tail(line))

\* a variant of WithinTolerance: top + bottom is compared without the division
\* by 2, which doubles the tolerance
WithinToleranceOfSums(char, current_line) ==
    Abs(Len(current_line) * (char.top + char.bottom) - SumCenters2(current_line))
        <= 4 * Len(current_line) * y_tolerance

\* abs(char_avg_y - current_line_avg_y) <= y_tolerance, with
\* char_avg_y = (top + bottom) / 2 and current_line_avg_y = sum / (2 * len),
\* both sides multiplied by 2 * len(current_line)
WithinTolerance(char, current_line) ==
    Abs(Len(current_line) * (char.top + char.bottom) - SumCenters2(current_line))
        <= 2 * Len(current_line) * y_tolerance

\* the loop over sorted_chars, then the flush of the last line
RECURSIVE GroupCharsLoop(_, _, _)
GroupCharsLoop(rest, lines, current_line) ==
    IF rest = <<>>
    THEN IF current_line # <<>> THEN Append(lines, SortedByX0(current_line)) ELSE lines
    ELSE IF current_line = <<>>
         THEN GroupCharsLoop(Tail(rest), lines, <<rest[1]>>)
         ELSE IF WithinTolerance(rest[1], current_line)
              THEN GroupCharsLoop(Tail(rest), lines, Append(current_line, rest[1]))
              ELSE GroupCharsLoop(Tail(rest), Append(lines, SortedByX0(current_line)),
                                  <<rest[1]>>)

_group_chars_into_lines(chars) ==
    IF chars = <<>> THEN <<>> ELSE GroupCharsLoop(SortedByTopX0(chars), <<>>, <<>>)

----------------------------------------------------------------------------
(* _get_median_line_height, _group_lines_into_blocks                       *)

\* the heights list: the most common size of every line that has a sized char
RECURSIVE LineHeights(_)
LineHeights(lines) ==
    IF lines = <<>> THEN <<>>
    ELSE LET sizes == SizesOf(lines[1])
         IN  (IF sizes # <<>> THEN <<MostCommon(CounterOf(sizes))>> ELSE <<>>)
             \o LineHeights(Tail(lines))

\* heights.sort()
SortedInts(h) == SortByKeys(h, [i \in 1..Len(h) |-> <<h[i], 0>>])

\* return 12
DefaultLineHeight == 1200

\* Twice the value the method returns (the mean of two middle values may be a
\* half): 2 * heights[mid], or heights[mid] + heights[~mid] on an even count.
\* With 1-based indices heights[mid] is h[mid + 1] and heights[~mid] is h[n - mid].
_get_median_line_height2(lines) ==
    LET h == SortedInts(LineHeights(lines))
        n == Len(h)
        mid == n \div 2
    IN  IF n = 0 THEN 2 * DefaultLineHeight
        ELSE IF n % 2 = 0 THEN h[mid + 1] + h[n - mid]
        ELSE 2 * h[mid + 1]

LineTop(line) == Min({line[i].top : i \in 1..Len(line)})
LineBottom(line) == Max({line[i].bottom : i \in 1..Len(line)})

\* a variant of ExceedsSpacing: line_spacing >= paragraph_spacing_threshold
ExceedsSpacingOrEqual(line_spacing, median2) == 4 * line_spacing >= 3 * median2

\* line_spacing > paragraph_spacing_threshold, the threshold being 1.5 * median:
\* both sides multiplied by 4, median2 being twice the median
ExceedsSpacing(line_spacing, median2) == 4 * line_spacing > 3 * median2

\* a variant of CloseBlock: the block is dropped instead of appended
CloseBlockDropped(blocks, current_block) == blocks

\* if current_block: blocks.append(current_block)
CloseBlock(blocks, current_block) ==
    IF current_block # <<>> THEN Append(blocks, current_block) ELSE blocks

\* the loop over lines, then the flush of the last block
RECURSIVE GroupLinesLoop(_, _, _, _, _)
GroupLinesLoop(rest, blocks, current_block, prev_line_bottom, median2) ==
    IF rest = <<>>
    THEN CloseBlock(blocks, current_block)
    ELSE LET line == rest[1] IN
         IF line = <<>>
         THEN GroupLinesLoop(Tail(rest), blocks, current_block, prev_line_bottom, median2)
         ELSE IF /\ prev_line_bottom # None
                 /\ ExceedsSpacing(LineTop(line) - prev_line_bottom[1], median2)
              THEN GroupLinesLoop(Tail(rest), CloseBlock(blocks, current_block),
                                  <<line>>, Some(LineBottom(line)), median2)
              ELSE GroupLinesLoop(Tail(rest), blocks, Append(current_block, line),
                                  Some(LineBottom(line)), median2)

_group_lines_into_blocks(lines) ==
    IF lines = <<>> THEN <<>>
    ELSE GroupLinesLoop(lines, <<>>, <<>>, None, _get_median_line_height2(lines))

----------------------------------------------------------------------------
(* _process_text_block                                                     *)

\* what a line of text line_text and dominant size line_size adds to
\* block_lines_md: nothing, its heading or its clean text
LineMd(line_text, line_size) ==
    LET cleaned_line_text == _clean_text(line_text)
    IN  IF cleaned_line_text = <<>> THEN <<>>
        ELSE IF _is_heading(line_size, cleaned_line_text)
             THEN <<_format_as_heading(cleaned_line_text, line_size)>>
             ELSE <<cleaned_line_text>>

BlockLineMd(line) ==
    IF line = <<>> THEN <<>>
    ELSE LET pl == _process_line(line) IN LineMd(pl[1], pl[2])

RECURSIVE BlockLinesMd(_)
BlockLinesMd(block) ==
    IF block = <<>> THEN <<>> ELSE BlockLineMd(block[1]) \o BlockLinesMd(Tail(block))

\* the second loop: an item that starts with '#' closes the paragraph and stands
\* alone, any other item joins current_paragraph
RECURSIVE JoinParagraphs(_, _, _)
JoinParagraphs(items, final_block_content, current_paragraph) ==
    IF items = <<>>
    THEN IF current_paragraph # <<>>
         THEN Append(final_block_content, Join(current_paragraph, <<" ">>))
         ELSE final_block_content
    ELSE IF StartsWith(items[1], "#")
         THEN JoinParagraphs(Tail(items),
                             Append(IF current_paragraph # <<>>
                                    THEN Append(final_block_content,
                                                Join(current_paragraph, <<" ">>))
                                    ELSE final_block_content,
                                    items[1]),
                             <<>>)
         ELSE JoinParagraphs(Tail(items), final_block_content,
                             Append(current_paragraph, items[1]))

_process_text_block(block) ==
    IF block = <<>> THEN <<>>
    ELSE Join(JoinParagraphs(BlockLinesMd(block), <<>>, <<>>), <<"\n">>)

----------------------------------------------------------------------------
(* _convert_table_to_markdown                                              *)
(* A table is [bbox, raises, data]: raises tells that table.extract()       *)
(* raises, data is what it returns otherwise: None or a list of rows, a    *)
(* row being a list of cells and a cell a str or None. A malformed grid    *)
(* holds a row that is not a list but a number (NotIterableRow).           *)

\* a variant of CellText: the cell is not stripped
CellTextUnstripped(cell) == IF cell = None THEN <<>> ELSE cell[1]

\* str(cell).strip() if cell is not None else ""
CellText(cell) == IF cell = None THEN <<>> ELSE Strip(cell[1])

\* "| " + " | ".join(...) + " |"
PipeRow(cells) == <<"|", " ">> \o Join(cells, <<" ", "|", " ">>) \o <<" ", "|">>

TableRow(row) == PipeRow([i \in 1..Len(row) |-> CellText(row[i])])

SeparatorRow(headers) == PipeRow([i \in 1..Len(headers) |-> <<"-", "-", "-">>])

\* for row in data[1:]: if row: markdown_table.append(data_row)
RECURSIVE DataRows(_)
DataRows(rows) ==
    IF rows = <<>> THEN <<>>
    ELSE (IF rows[1] # <<>> THEN <<TableRow(rows[1])>> ELSE <<>>) \o DataRows(Tail(rows))

\* the items of markdown_table
MarkdownTable(data) ==
    IF data[1] # <<>>
    THEN <<TableRow(data[1]), SeparatorRow(data[1])>> \o DataRows(Tail(data))
    ELSE <<>>

\* A row that is a number other than 0: it is truthy and iterating over it
\* raises TypeError. It is written as a row of one cell of two elements, which
\* no cell is (a cell has no or one element).
NotIterableRow == <<<<<<>>, <<>>>>>>

\* "for cell in row" does not raise
IsIterable(row) == \A i \in 1..Len(row) : Len(row[i]) <= 1

\* the first row of the grid whose rendering raises, 0 when none does: the
\* rows are rendered only under "if headers:", and a row only under "if row:"
FirstRaisingRow(data) ==
    LET bad == {i \in 1..Len(data) : data[i] # <<>> /\ ~IsIterable(data[i])}
    IN  IF data[1] = <<>> \/ bad = {} THEN 0 ELSE Min(bad)

\* markdown_table when the rendering of row k raises
RenderedBefore(data, k) == IF k = 1 THEN <<>> ELSE MarkdownTable(SubSeq(data, 1, k - 1))

\* a variant of ExceptReturn: the handler returns the rows rendered so far
ExceptReturnRendered(markdown_table) == Join(markdown_table, <<"\n">>)

\* except Exception as e: return ""
ExceptReturn(markdown_table) == <<>>

_convert_table_to_markdown(table) ==
    IF table.raises THEN ExceptReturn(<<>>)                \* table.extract() raises
    ELSE IF table.data = None \/ Len(table.data[1]) < 2 THEN <<>>
    ELSE IF FirstRaisingRow(table.data[1]) # 0
         THEN ExceptReturn(RenderedBefore(table.data[1], FirstRaisingRow(table.data[1])))
    ELSE Join(MarkdownTable(table.data[1]), <<"\n">>)

----------------------------------------------------------------------------
(* _process_page                                                           *)
(* A page is [chars, tables]; a bbox is <<x0, top, x1, bottom>>.           *)

BlockChars(block) == Flatten(block)

\* (min_x0, min_top, max_x1, max_bottom) over the block's chars
BlockBBox(block) ==
    LET cs == BlockChars(block)
        I == 1..Len(cs)
    IN  <<Min({cs[i].x0 : i \in I}), Min({cs[i].top : i \in I}),
          Max({cs[i].x1 : i \in I}), Max({cs[i].bottom : i \in I})>>

\* the text elements, one per block, then the table elements
TextElements(chars) ==
    IF chars = <<>> THEN <<>>
    ELSE LET text_blocks == _group_lines_into_blocks(_group_chars_into_lines(chars))
         IN  [i \in 1..Len(text_blocks) |->
                [type |-> "text", content |-> text_blocks[i],
                 bbox |-> BlockBBox(text_blocks[i])]]

TableElements(tables) ==
    [i \in 1..Len(tables) |->
        [type |-> "table", content |-> tables[i], bbox |-> tables[i].bbox]]

\* a variant of SortElements: the key is (x0, top) instead of (top, x0)
SortElementsByX0Top(page_elements) ==
    SortByKeys(page_elements,
               [i \in 1..Len(page_elements) |->
                   <<page_elements[i].bbox[1], page_elements[i].bbox[2]>>])

\* page_elements.sort(key=lambda x: (x['bbox'][1], x['bbox'][0]))
SortElements(page_elements) ==
    SortByKeys(page_elements,
               [i \in 1..Len(page_elements) |->
                   <<page_elements[i].bbox[2], page_elements[i].bbox[1]>>])

PageElements(page) == SortElements(TextElements(page.chars) \o TableElements(page.tables))

RenderElement(element) ==
    IF element.type = "text" THEN _process_text_block(element.content)
    ELSE _convert_table_to_markdown(element.content)

\* markdown_parts: the renderings that are not blank, in the order of the elements
RECURSIVE MarkdownParts(_)
MarkdownParts(page_elements) ==
    IF page_elements = <<>> THEN <<>>
    ELSE LET md == RenderElement(page_elements[1])
         IN  (IF Strip(md) # <<>> THEN <<md>> ELSE <<>>)
             \o MarkdownParts(Tail(page_elements))

_process_page(page) == Join(MarkdownParts(PageElements(page)), <<"\n", "\n">>)

----------------------------------------------------------------------------
(* extract_text_with_formatting, _analyze_document_structure               *)

\* a variant of Clear: the counts of the earlier document stay
ClearSkipped(counter) == counter

\* self.font_sizes.clear()
Clear(counter) == <<>>

\* for char in chars: if char.get('size'): font_sizes[round(float(size), 1)] += 1
RECURSIVE CountChars(_, _)
CountChars(counter, chars) ==
    IF chars = <<>> THEN counter
    ELSE CountChars(IF chars[1].size # 0
                    THEN CounterAdd(counter, Round1(chars[1].size))
                    ELSE counter,
                    Tail(chars))

\* A character of one glyph: its box is w wide and h high.
Char(text, size, x0, top, h) ==
    [text |-> <<text>>, size |-> size, x0 |-> x0, x1 |-> x0 + 600,
     top |-> top, bottom |-> top + h]

Table(x0, top, data) ==
    [bbox |-> <<x0, top, x0 + 6000, top + 3000>>, raises |-> FALSE, data |-> data]

Str(s) == Some(s)

\* The pages the documents of the model are made of.
PageTitle ==
    [chars |-> <<Char("T", 2400, 0, 0, 2400), Char("a", 1198, 0, 6000, 1200),
                 Char("b", 1204, 600, 6000, 1200)>>,
     tables |-> <<>>]
PageBody ==
    [chars |-> <<Char("c", 1204, 0, 0, 1200), Char("d", 1204, 600, 0, 1200),
                 Char("e", 0, 1200, 0, 1200)>>,
     tables |-> <<Table(0, 3000, Some(<<<<Str(<<"A">>)>>, <<Str(<<"1">>)>>>>))>>]
PageTiny ==
    [chars |-> <<Char("f", 4, 0, 0, 100), Char("g", 4, 600, 0, 100),
                 Char("h", 1198, 1200, 0, 1200)>>,
     tables |-> <<>>]
PageEmpty == [chars |-> <<>>, tables |-> <<>>]

PagePool == {PageTitle, PageBody, PageTiny, PageEmpty}

\* most pages of a document, most conversions on one converter
MaxPages == 2
MaxConversions == 2

SeqsUpTo(S, n) == UNION {[1..k -> S] : k \in 0..n}

Docs == SeqsUpTo(PagePool, MaxPages)

NoCall == <<>>
NoRet == <<>>

Init ==
    /\ font_sizes = <<>>              \* __init__: Counter()
    /\ pc = "idle"
    /\ pdf = <<>>
    /\ page_num = 0
    /\ markdown_content = <<>>
    /\ conversions = 0
    /\ call = NoCall
    /\ ret = NoRet

\* extract_text_with_formatting up to the loop of _analyze_document_structure
Open(d) ==
    /\ pc = "idle"
    /\ conversions < MaxConversions
    /\ pdf' = d
    /\ markdown_content' = <<>>
    /\ font_sizes' = Clear(font_sizes)
    /\ page_num' = 0
    /\ pc' = "analyze"
    /\ conversions' = conversions + 1
    /\ UNCHANGED <<call, ret>>

\* one round of "for page in pdf.pages" of _analyze_document_structure
AnalyzePage ==
    /\ pc = "analyze"
    /\ page_num < Len(pdf)
    /\ font_sizes' = CountChars(font_sizes, pdf[page_num + 1].chars)
    /\ page_num' = page_num + 1
    /\ UNCHANGED <<pc, pdf, markdown_content, conversions, call, ret>>

\* _analyze_document_structure returns; the loop over the pages starts
StartRendering ==
    /\ pc = "analyze"
    /\ page_num = Len(pdf)
    /\ pc' = "render"
    /\ page_num' = 0
    /\ UNCHANGED <<font_sizes, pdf, markdown_content, conversions, call, ret>>

\* one round of "for page_num, page in enumerate(pdf.pages)"
ProcessPage ==
    /\ pc = "render"
    /\ page_num < Len(pdf)
    /\ LET page_content == _process_page(pdf[page_num + 1])
       IN  markdown_content' = IF Strip(page_content) # <<>>
                               THEN Append(markdown_content, page_content)
                               ELSE markdown_content
    /\ page_num' = page_num + 1
    /\ UNCHANGED <<font_sizes, pc, pdf, conversions, call, ret>>

\* return '\n\n'.join(markdown_content); the locals of the call are gone
Return ==
    /\ pc = "render"
    /\ page_num = Len(pdf)
    /\ ret' = Some(Join(markdown_content, <<"\n", "\n">>))
    /\ pc' = "idle"
    /\ pdf' = <<>>
    /\ page_num' = 0
    /\ markdown_content' = <<>>
    /\ UNCHANGED <<font_sizes, conversions, call>>

Next ==
    \/ \E d \in Docs : Open(d)
    \/ AnalyzePage
    \/ StartRendering
    \/ ProcessPage
    \/ Return

Spec == Init /\ [][Next]_vars

\* a size rounded to 1 decimal: the multiple of 0.1 nearest to it
ClaimedRounded(size) ==
    CHOOSE r \in {10 * k : k \in 0..(size \div 10 + 1)} : 2 * r - 10 < 2 * size /\ 2 * size < 2 * r + 10

\* the sized characters of the document of the running conversion, all pages
DocumentSized ==
    {pi \in UNION {{<<p, i>> : i \in 1..Len(pdf[p].chars)} : p \in 1..Len(pdf)} :
        pdf[pi[1]].chars[pi[2]].size # 0}

SizeAt(pi) == pdf[pi[1]].chars[pi[2]].size

\* the profile is the histogram of the document: every bucket counts the sized
\* characters of that rounded size, and every such size has its bucket
ProfileIsHistogram ==
    /\ \A k \in 1..Len(font_sizes) :
           /\ font_sizes[k].n = Cardinality({pi \in DocumentSized :
                                                ClaimedRounded(SizeAt(pi)) = font_sizes[k].size})
           /\ \A j \in 1..Len(font_sizes) : font_sizes[j].size = font_sizes[k].size => j = k
    /\ \A pi \in DocumentSized :
           \E k \in 1..Len(font_sizes) : font_sizes[k].size = ClaimedRounded(SizeAt(pi))

\* C9: whenever a page is rendered the font profile is the histogram of the
\* rounded sizes of the sized characters of all pages of the current document
\* and of nothing else, and no step taken while pages are rendered changes it.
C9_ProfileOfCurrentDocument ==
    /\ [](pc = "render" => ProfileIsHistogram)
    /\ [][pc = "render" => font_sizes' = font_sizes]_vars

\* C9 witness: the second conversion of a converter, whose first conversion
\* counted sizes, has rendered the first of two pages; the second page, not yet
\* rendered, has sized characters, which the profile counts
C9_Witness ==
    /\ pc = "render"
    /\ conversions = 2
    /\ ret # NoRet
    /\ ret[1] # <<>>
    /\ Len(pdf) = 2
    /\ page_num = 1
    /\ pdf[1] # pdf[2]
    /\ \E i \in 1..Len(pdf[2].chars) : pdf[2].chars[i].size # 0
    /\ ProfileIsHistogram

----------------------------------------------------------------------------
(* The heading decision of one line: _clean_text, _is_heading and          *)
(* _format_as_heading as _process_text_block applies them to what          *)
(* _process_line returned, under every font profile of HeadingProfiles.    *)

\* most sized characters of the documents the profiles are counted from
MaxProfileChars == 2

ProfileSizes == {4, 1000, 1198, 1204}

ProfileChars(sizes) == [i \in 1..Len(sizes) |-> Char("x", sizes[i], 0, 0, 1200)]

HeadingProfiles ==
    {CountChars(<<>>, ProfileChars(sizes)) : sizes \in SeqsUpTo(ProfileSizes, MaxProfileChars)}

\* dominant sizes: none (0), and the sizes next to every threshold of body
\* sizes 10.0 and 12.0
HeadingSizes ==
    {0, 4, 1000, 1099, 1100, 1101, 1199, 1200, 1399, 1400, 1699, 1700, 1999, 2000,
     1319, 1321, 1439, 1440, 1679, 1680, 2039, 2040, 2399, 2400}

Letters(n) == [i \in 1..n |-> "a"]

AnnualReport == <<"A", "n", "n", "u", "a", "l", " ", "R", "e", "p", "o", "r", "t">>

\* line texts: of 0, 1, 98, 99, 100 letters, then one of the endings
HeadingTexts ==
    {Letters(n) \o e :
        n \in {0, 1, ShortLimit - 2, ShortLimit - 1, ShortLimit},
        e \in {<<>>, <<".">>, <<",">>, <<"b">>, <<".", " ">>, <<" ", " ", "b", "\n">>}}
    \cup {AnnualReport, <<" ", "\t">>}

InitHeading ==
    /\ font_sizes \in HeadingProfiles
    /\ call \in [line_text : HeadingTexts, line_size : HeadingSizes]
    /\ pc = "line"
    /\ ret = NoRet
    /\ pdf = <<>>
    /\ page_num = 0
    /\ markdown_content = <<>>
    /\ conversions = 0

\* _process_text_block's handling of one line, after _process_line
ClassifyLine ==
    /\ pc = "line"
    /\ LET cleaned_line_text == _clean_text(call.line_text)
       IN  ret' = [cleaned_line_text |-> cleaned_line_text,
                   called |-> cleaned_line_text # <<>>,
                   is_heading |-> /\ cleaned_line_text # <<>>
                                  /\ _is_heading(call.line_size, cleaned_line_text),
                   item |-> LineMd(call.line_text, call.line_size)]
    /\ pc' = "returned"
    /\ UNCHANGED <<font_sizes, pdf, page_num, markdown_content, conversions, call>>

SpecHeading == InitHeading /\ [][ClassifyLine]_vars

\* The body size as the claims define it: the most frequent rounded size of the
\* profile, the first seen among the most frequent.
ClaimedBodySize ==
    LET i == CHOOSE i \in 1..Len(font_sizes) :
                 \A j \in 1..Len(font_sizes) :
                     \/ font_sizes[j].n < font_sizes[i].n
                     \/ (font_sizes[j].n = font_sizes[i].n /\ i <= j)
    IN  font_sizes[i].size

ClaimedDepth(size, body) ==
    CASE 10 * size >= 20 * body -> 1
      [] 10 * size >= 17 * body /\ 10 * size < 20 * body -> 2
      [] 10 * size >= 14 * body /\ 10 * size < 17 * body -> 3
      [] 10 * size >= 12 * body /\ 10 * size < 14 * body -> 4
      [] OTHER -> 5

\* the number of '#' a string starts with
RECURSIVE LeadingHashes(_)
LeadingHashes(t) == IF StartsWith(t, "#") THEN 1 + LeadingHashes(Tail(t)) ELSE 0

\* C2: for a heading line with body size > 0 the heading is ClaimedDepth '#',
\* a space and the text; no larger dominant size gets a deeper heading; size 24
\* with body size 12 gives exactly '# Annual Report'.
C2_DepthByRatio ==
    (pc = "returned" /\ ret.is_heading /\ ClaimedBodySize > 0) =>
        LET text == ret.cleaned_line_text
            depth == ClaimedDepth(call.line_size, ClaimedBodySize)
        IN  /\ ret.item = <<[i \in 1..depth |-> "#"] \o <<" ">> \o text>>
            /\ \A larger \in HeadingSizes :
                   larger >= call.line_size =>
                       LeadingHashes(_format_as_heading(<<"t">>, larger)) <= depth
            /\ (call.line_size = 2400 /\ ClaimedBodySize = 1200 /\ text = AnnualReport)
                   => ret.item = <<<<"#", " ">> \o AnnualReport>>

\* C2 witness: 'Annual Report' at size 24 with body size 12
C2_Witness ==
    /\ pc = "returned"
    /\ ret.is_heading
    /\ call.line_size = 2400
    /\ MostCommon(font_sizes) = 1200
    /\ ret.cleaned_line_text = AnnualReport
    /\ ret.item = <<<<"#", " ">> \o AnnualReport>>

\* C10 as stated: with a body size of zero a heading has depth 2 ('## ')
C10_ZeroBodyDepthTwo ==
    (pc = "returned" /\ ret.is_heading /\ ClaimedBodySize = 0) =>
        ret.item = <<<<"#", "#", " ">> \o ret.cleaned_line_text>>

\* C10 amended: with a body size of zero a heading has depth 5 ('##### '), and
\* with an empty font profile, the one case in which _format_as_heading answers
\* '## ' whatever the size, no line is a heading.
C10_ZeroBodyDepthFive ==
    pc = "returned" =>
        /\ (ret.is_heading /\ ClaimedBodySize = 0) =>
               ret.item = <<<<"#", "#", "#", "#", "#", " ">> \o ret.cleaned_line_text>>
        /\ font_sizes = <<>> =>
               /\ ~ret.is_heading
               /\ _format_as_heading(ret.cleaned_line_text, call.line_size)
                      = <<"#", "#", " ">> \o ret.cleaned_line_text

\* C10 witness: a heading under a profile whose most frequent rounded size is 0.0
C10_Witness ==
    /\ pc = "returned"
    /\ font_sizes # <<>>
    /\ MostCommon(font_sizes) = 0
    /\ ret.is_heading
    /\ call.line_size > 0

----------------------------------------------------------------------------
(* _group_lines_into_blocks on the lines of a page.                        *)

\* most lines of a page
MaxLines == 3

\* A line of the input: the gap that separates it from the line above and the
\* sizes of its two characters, or an empty line.
LineGaps == {1500, 1501, 1650, 1651, 1800, 1801}
LineSizes == {<<0, 0>>, <<1000, 0>>, <<1200, 1000>>}
LineShapes ==
    [empty : {FALSE}, gap : LineGaps, sizes : LineSizes]
    \cup {[empty |-> TRUE, gap |-> 0, sizes |-> <<0, 0>>]}

\* The lines of the shapes, from top to bottom below y: the second character of
\* a line sits 1 pt lower than the first, as within the tolerance of a line.
RECURSIVE LinesBelow(_, _)
LinesBelow(shapes, y) ==
    IF shapes = <<>> THEN <<>>
    ELSE LET sh == shapes[1]
             t == y + sh.gap
         IN  IF sh.empty THEN <<<<>>>> \o LinesBelow(Tail(shapes), y)
             ELSE <<<<Char("a", sh.sizes[1], 0, t, 1000),
                      Char("b", sh.sizes[2], 600, t + 100, 1000)>>>>
                  \o LinesBelow(Tail(shapes), t + 1100)

InitBlocks ==
    /\ call \in {[lines |-> LinesBelow(shapes, 0)] : shapes \in SeqsUpTo(LineShapes, MaxLines)}
    /\ font_sizes = <<>>
    /\ pc = "lines"
    /\ ret = NoRet
    /\ pdf = <<>>
    /\ page_num = 0
    /\ markdown_content = <<>>
    /\ conversions = 0

GroupLines ==
    /\ pc = "lines"
    /\ ret' = _group_lines_into_blocks(call.lines)
    /\ pc' = "returned"
    /\ UNCHANGED <<font_sizes, pdf, page_num, markdown_content, conversions, call>>

SpecBlocks == InitBlocks /\ [][GroupLines]_vars

\* the input lines that are not empty, in order
NonEmptyLines == SelectSeq(call.lines, LAMBDA line : line # <<>>)

\* the block of the result that holds the k-th non-empty line
BlockOf(k) ==
    Min({b \in 1..Len(ret) : Len(Flatten(SubSeq(ret, 1, b))) >= k})

\* the dominant size of a line as the claims define it: its most frequent size,
\* the first seen among the most frequent; 0 when no character has a size
ClaimedDominantSize(line) ==
    LET sized == {i \in 1..Len(line) : line[i].size # 0}
        count(i) == Cardinality({j \in sized : line[j].size = line[i].size})
    IN  IF sized = {} THEN 0
        ELSE line[CHOOSE i \in sized :
                     \A j \in sized : count(j) < count(i) \/ (count(j) = count(i) /\ i <= j)].size

\* twice the median of the values of h, a sequence of numbers: twice the middle
\* value of an odd count, the sum of the two middle values of an even count,
\* twice 12 when h is empty
ClaimedMedian2(h) ==
    LET n == Len(h)
        kth(k) == CHOOSE v \in Range(h) :
                      /\ Cardinality({i \in 1..n : h[i] < v}) < k
                      /\ Cardinality({i \in 1..n : h[i] <= v}) >= k
    IN  IF n = 0 THEN 2400
        ELSE IF n % 2 = 1 THEN 2 * kth((n + 1) \div 2)
        ELSE kth(n \div 2) + kth(n \div 2 + 1)

ClaimedPageMedian2 ==
    ClaimedMedian2(SelectSeq([i \in 1..Len(NonEmptyLines) |->
                                 ClaimedDominantSize(NonEmptyLines[i])],
                             LAMBDA size : size # 0))

\* next line's minimum top minus previous line's maximum bottom
ClaimedGap(k) ==
    LET prev == NonEmptyLines[k]
        next == NonEmptyLines[k + 1]
    IN  Min({next[i].top : i \in 1..Len(next)}) - Max({prev[i].bottom : i \in 1..Len(prev)})

\* C3: two consecutive non-empty lines are in the same block if and only if
\* their vertical gap is at most 1.5 times the median line height of the page
\* (4 * gap <= 3 * twice the median).
C3_SameBlockIffGapWithin ==
    pc = "returned" =>
        /\ Len(Flatten(ret)) = Len(NonEmptyLines)
        /\ \A k \in 1..(Len(NonEmptyLines) - 1) :
               (BlockOf(k) = BlockOf(k + 1)) <=> (4 * ClaimedGap(k) <= 3 * ClaimedPageMedian2)

\* C3 witness: a page whose median is the mean of two middle values (11 pt),
\* one gap exactly at the threshold (16.5 pt) kept in a block and a larger gap
\* that starts a block
C3_Witness ==
    /\ pc = "returned"
    /\ ClaimedPageMedian2 = 2200
    /\ \E k \in 1..(Len(NonEmptyLines) - 1) :
           ClaimedGap(k) = 1650 /\ BlockOf(k) = BlockOf(k + 1)
    /\ \E k \in 1..(Len(NonEmptyLines) - 1) :
           ClaimedGap(k) > 1650 /\ BlockOf(k) # BlockOf(k + 1)

\* C4: the blocks are a partition of the non-empty input lines into contiguous
\* runs: their concatenation is the sequence of the non-empty lines in input
\* order, and no block is empty.
C4_BlocksPartitionLines ==
    pc = "returned" =>
        /\ Flatten(ret) = NonEmptyLines
        /\ \A b \in 1..Len(ret) : ret[b] # <<>>

\* C4 witness: an input with an empty line among three lines, split in two blocks
C4_Witness ==
    /\ pc = "returned"
    /\ Len(call.lines) = 3
    /\ Len(NonEmptyLines) = 2
    /\ Len(ret) = 2

----------------------------------------------------------------------------
(* _group_chars_into_lines on the characters of a page.                    *)

\* most characters of a page
MaxChars == 4

\* characters 10 pt high at tops 0, 3, 4.5 and 5.5 pt, and one 16 pt high
CharPool ==
    {Char("a", 1000, x0, top, 1000) : x0 \in {0, 600}, top \in {0, 300, 450, 550}}
    \cup {Char("T", 1600, 1200, 0, 1600)}

InitLines ==
    /\ call \in {[chars |-> chars] : chars \in SeqsUpTo(CharPool, MaxChars)}
    /\ font_sizes = <<>>
    /\ pc = "chars"
    /\ ret = NoRet
    /\ pdf = <<>>
    /\ page_num = 0
    /\ markdown_content = <<>>
    /\ conversions = 0

GroupChars ==
    /\ pc = "chars"
    /\ ret' = _group_chars_into_lines(call.chars)
    /\ pc' = "returned"
    /\ UNCHANGED <<font_sizes, pdf, page_num, markdown_content, conversions, call>>

SpecLines == InitLines /\ [][GroupChars]_vars

\* the sum of top + bottom (twice the vertical center) over chars[1..k]
RECURSIVE ClaimedSum2(_, _)
ClaimedSum2(chars, k) ==
    IF k = 0 THEN 0 ELSE chars[k].top + chars[k].bottom + ClaimedSum2(chars, k - 1)

\* |center of c - average center of chars[1..k]| <= 3.0, multiplied by 2 * k
ClaimedWithin(c, chars, k) ==
    LET d == k * (c.top + c.bottom) - ClaimedSum2(chars, k)
    IN  d <= 600 * k /\ -d <= 600 * k

\* C5 as stated: every character of a returned line is within 3.0 of the average
\* vertical center of all the characters of that line
C5_WithinFinalAverage ==
    pc = "returned" =>
        \A l \in 1..Len(ret) : \A i \in 1..Len(ret[l]) :
            ClaimedWithin(ret[l][i], ret[l], Len(ret[l]))

\* C5 amended: taking the characters of a returned line in (top, x0) order, every
\* character after the first is within 3.0 of the average vertical center of the
\* characters before it (the running average when it joined the line).
C5_WithinRunningAverage ==
    pc = "returned" =>
        \A l \in 1..Len(ret) :
            LET joined == SortedByTopX0(ret[l])
            IN  \A i \in 2..Len(joined) : ClaimedWithin(joined[i], joined, i - 1)

\* C5 witness: a line of four characters, the first of them farther than 3.0
\* from the average center of the finished line
C5_Witness ==
    /\ pc = "returned"
    /\ \E l \in 1..Len(ret) :
           /\ Len(ret[l]) = 4
           /\ \E i \in 1..4 : ~ClaimedWithin(ret[l][i], ret[l], 4)

----------------------------------------------------------------------------
(* _process_text_block on a block of lines.                                *)

\* most lines of a block
MaxBlockLines == 3

\* the lines of the blocks: body text (its characters not in x0 order), body
\* text that starts with '#', a heading, a line of whitespace, an empty line
BlockLinePool ==
    {<<Char("b", 1200, 600, 0, 1200), Char("a", 1200, 0, 0, 1200)>>,
     <<Char("#", 1200, 0, 0, 1200), Char("c", 1200, 600, 0, 1200)>>,
     <<Char("d", 1200, 0, 0, 1200), Char(".", 1200, 600, 0, 1200)>>,
     <<Char("H", 2400, 0, 0, 2400)>>,
     <<Char(" ", 1200, 0, 0, 1200)>>,
     <<>>}

BlockProfiles == {<<>>, <<[size |-> 1200, n |-> 5], [size |-> 2400, n |-> 1]>>}

InitBlockText ==
    /\ font_sizes \in BlockProfiles
    /\ call \in {[block |-> block] : block \in SeqsUpTo(BlockLinePool, MaxBlockLines)}
    /\ pc = "block"
    /\ ret = NoRet
    /\ pdf = <<>>
    /\ page_num = 0
    /\ markdown_content = <<>>
    /\ conversions = 0

RenderBlock ==
    /\ pc = "block"
    /\ ret' = _process_text_block(call.block)
    /\ pc' = "returned"
    /\ UNCHANGED <<font_sizes, pdf, page_num, markdown_content, conversions, call>>

SpecBlockText == InitBlockText /\ [][RenderBlock]_vars

\* The output lines the claim describes: a heading line alone, after the
\* paragraph before it; the clean texts of a run of non-heading lines joined by
\* spaces; nothing for a blank line. paragraph is the run being collected.
RECURSIVE ClaimedBlockLines(_, _)
ClaimedBlockLines(block, paragraph) ==
    LET flush == IF paragraph = <<>> THEN <<>> ELSE <<Join(paragraph, <<" ">>)>>
    IN  IF block = <<>> THEN flush
        ELSE LET pl == _process_line(block[1])
                 text == _clean_text(pl[1])
             IN  IF block[1] = <<>> \/ text = <<>>
                 THEN ClaimedBlockLines(Tail(block), paragraph)
                 ELSE IF _is_heading(pl[2], text)
                      THEN flush \o <<_format_as_heading(text, pl[2])>>
                           \o ClaimedBlockLines(Tail(block), <<>>)
                      ELSE ClaimedBlockLines(Tail(block), Append(paragraph, text))

\* C6: the rendering of a block is, line by line, what the classification by
\* _is_heading gives: every run of non-heading lines is one output line, whatever
\* their text, and every heading is a line of its own.
C6_ParagraphsByClassification ==
    pc = "returned" => ret = Join(ClaimedBlockLines(call.block, <<>>), <<"\n">>)

----------------------------------------------------------------------------
(* _convert_table_to_markdown on a table.                                  *)

\* most rows of a grid
MaxRows == 3

\* the rows of the grids: the three rows of the documented example, an empty
\* row, a row to trim and a row with a line break inside a cell
RowPool ==
    {<<Str(<<"A">>), Str(<<"B">>)>>,
     <<Str(<<"1">>), Str(<<"2">>)>>,
     <<Str(<<"3">>), None>>,
     <<>>,
     <<Str(<<" ", "x", " ">>), Str(<<"\n">>)>>,
     <<Str(<<"y", "\n", "z">>)>>}

TablePool ==
    {Table(0, 0, Some(rows)) : rows \in SeqsUpTo(RowPool, MaxRows)}
    \cup {Table(0, 0, None), [Table(0, 0, None) EXCEPT !.raises = TRUE]}

InitTable ==
    /\ call \in {[table |-> table] : table \in TablePool}
    /\ font_sizes = <<>>
    /\ pc = "table"
    /\ ret = NoRet
    /\ pdf = <<>>
    /\ page_num = 0
    /\ markdown_content = <<>>
    /\ conversions = 0

ConvertTable ==
    /\ pc = "table"
    /\ ret' = _convert_table_to_markdown(call.table)
    /\ pc' = "returned"
    /\ UNCHANGED <<font_sizes, pdf, page_num, markdown_content, conversions, call>>

SpecTable == InitTable /\ [][ConvertTable]_vars

\* text.split('\n')
RECURSIVE SplitLines(_)
SplitLines(t) ==
    LET breaks == {i \in 1..Len(t) : t[i] = "\n"}
    IN  IF breaks = {} THEN <<t>>
        ELSE <<SubSeq(t, 1, Min(breaks) - 1)>>
             \o SplitLines(SubSeq(t, Min(breaks) + 1, Len(t)))

\* the grid of the call: its rows, none when extract() gave None
Grid == IF call.table.data = None THEN <<>> ELSE call.table.data[1]

\* a cell as the claim renders it: trimmed, the empty string when absent
ClaimedCell(cell) ==
    IF cell = <<>> THEN <<>>
    ELSE LET t == cell[1]
             ks == {i \in 1..Len(t) : t[i] \notin {" ", "\t", "\n"}}
         IN  IF ks = {} THEN <<>> ELSE SubSeq(t, Min(ks), Max(ks))

\* '| c1 | c2 |'
ClaimedRowLine(row) ==
    <<"|">> \o Flatten([i \in 1..Len(row) |-> <<" ">> \o ClaimedCell(row[i]) \o <<" ", "|">>])

\* '| --- | --- |', '---' once per header cell
ClaimedSeparator(headers) ==
    <<"|">> \o Flatten([i \in 1..Len(headers) |-> <<" ", "-", "-", "-", " ", "|">>])

ExampleGrid ==
    <<<<Str(<<"A">>), Str(<<"B">>)>>, <<Str(<<"1">>), Str(<<"2">>)>>, <<Str(<<"3">>), None>>>>

ExampleLines ==
    <<<<"|", " ", "A", " ", "|", " ", "B", " ", "|">>,
      <<"|", " ", "-", "-", "-", " ", "|", " ", "-", "-", "-", " ", "|">>,
      <<"|", " ", "1", " ", "|", " ", "2", " ", "|">>,
      <<"|", " ", "3", " ", "|", " ", " ", "|">>>>

NoLineBreakInCells ==
    \A r \in 1..Len(Grid) : \A c \in 1..Len(Grid[r]) :
        \A i \in 1..Len(ClaimedCell(Grid[r][c])) : ClaimedCell(Grid[r][c])[i] # "\n"

----------------------------------------------------------------------------
(* _process_page on a page.                                                *)

\* most tables of a page
MaxTables == 2

\* the characters of the pages, in the order the page lists them: three letters
\* far enough apart to be three blocks, and a space that is a block of its own
PageChars ==
    <<Char("b", 1200, 0, 5000, 1200), Char("a", 1200, 1000, 0, 1200),
      Char(" ", 1200, 0, 15000, 1200), Char("c", 1200, 2000, 10000, 1200)>>

PageCharLists ==
    {LET picked == SelectSeq(<<1, 2, 3, 4>>, LAMBDA i : i \in S)
     IN  [k \in 1..Len(picked) |-> PageChars[picked[k]]] : S \in SUBSET (1..4)}

OneColumn(header, cell) == Some(<<<<Str(<<header>>)>>, <<Str(<<cell>>)>>>>)

\* a table whose extract() raises, between 'a' and 'b'
RaisingTable == [Table(0, 3000, None) EXCEPT !.raises = TRUE]

\* a table of a malformed grid, between 'b' and 'c': the header is rendered,
\* then the second row raises
MalformedTable == Table(0, 8000, Some(<<<<Str(<<"E">>)>>, NotIterableRow>>))

\* the tables of the pages: left of 'a' at its top, right of 'b' at its top,
\* between 'b' and 'c', a table of one row, which renders to nothing, and the
\* two tables that fail
PageTablePool ==
    {Table(0, 0, OneColumn("A", "1")), Table(500, 5000, OneColumn("B", "2")),
     Table(0, 7000, OneColumn("C", "3")), Table(0, 2000, Some(<<<<Str(<<"D">>)>>>>)),
     RaisingTable, MalformedTable}

InitPage ==
    /\ call \in {[page |-> [chars |-> chars, tables |-> tables]] :
                    chars \in PageCharLists, tables \in SeqsUpTo(PageTablePool, MaxTables)}
    /\ font_sizes = CountChars(<<>>, call.page.chars)
    /\ pc = "page"
    /\ ret = NoRet
    /\ pdf = <<>>
    /\ page_num = 0
    /\ markdown_content = <<>>
    /\ conversions = 0

RenderPage ==
    /\ pc = "page"
    /\ ret' = _process_page(call.page)
    /\ pc' = "returned"
    /\ UNCHANGED <<font_sizes, pdf, page_num, markdown_content, conversions, call>>

SpecPage == InitPage /\ [][RenderPage]_vars

\* text.split('\n\n'), nothing for the empty text
RECURSIVE SplitParts(_)
SplitParts(t) ==
    LET blanks == {i \in 1..(Len(t) - 1) : t[i] = "\n" /\ t[i + 1] = "\n"}
    IN  IF t = <<>> THEN <<>>
        ELSE IF blanks = {} THEN <<t>>
        ELSE <<SubSeq(t, 1, Min(blanks) - 1)>>
             \o SplitParts(SubSeq(t, Min(blanks) + 2, Len(t)))

\* the elements of the page of the call before the sort, and their (top, x0)
CollectedElements == TextElements(call.page.chars) \o TableElements(call.page.tables)

ElementKey(element) == <<element.bbox[2], element.bbox[1]>>

\* the elements whose rendering is not blank
Rendered ==
    {i \in 1..Len(CollectedElements) : Strip(RenderElement(CollectedElements[i])) # <<>>}

\* C8: the returned Markdown is the renderings of the elements that are not blank,
\* each once, separated by one blank line, and the rendering of an element of
\* smaller (top, x0) comes before the rendering of an element of larger (top, x0),
\* text or table.
C8_ElementsInReadingOrder ==
    pc = "returned" =>
        LET parts == SplitParts(ret)
            R(i) == RenderElement(CollectedElements[i])
        IN  /\ Len(parts) = Cardinality(Rendered)
            /\ \A i \in Rendered :
                   Cardinality({k \in 1..Len(parts) : parts[k] = R(i)})
                       = Cardinality({j \in Rendered : R(j) = R(i)})
            /\ \A a \in Rendered, b \in Rendered :
                   PairLt(ElementKey(CollectedElements[a]), ElementKey(CollectedElements[b]))
                       => \E i \in 1..Len(parts), j \in 1..Len(parts) :
                              i < j /\ parts[i] = R(a) /\ parts[j] = R(b)

\* C8 witness: a table rendered before a text block of the same top to its
\* right, a table rendered after a text block, and an element rendered to nothing
C8_Witness ==
    /\ pc = "returned"
    /\ Len(SplitParts(ret)) >= 4
    /\ Cardinality(Rendered) < Len(CollectedElements)
    /\ \E a \in Rendered, b \in Rendered :
           /\ CollectedElements[a].type = "table"
           /\ CollectedElements[b].type = "text"
           /\ CollectedElements[a].bbox[2] = CollectedElements[b].bbox[2]
           /\ CollectedElements[a].bbox[1] < CollectedElements[b].bbox[1]
    /\ \E a \in Rendered, b \in Rendered :
           /\ CollectedElements[a].type = "text"
           /\ CollectedElements[b].type = "table"
           /\ PairLt(ElementKey(CollectedElements[a]), ElementKey(CollectedElements[b]))

\* a table whose grid cannot be extracted or rendered: extract() raises, or
\* the grid holds a row that is not a list
Fails(table) ==
    \/ table.raises
    \/ /\ table.data # None
       /\ \E r \in 1..Len(table.data[1]) :
              \E c \in 1..Len(table.data[1][r]) : Len(table.data[1][r][c]) > 1

FailedTables == {i \in 1..Len(call.page.tables) : Fails(call.page.tables[i])}

\* the page of the call without its tables that fail
PageWithoutFailedTables ==
    [call.page EXCEPT !.tables = SelectSeq(call.page.tables, LAMBDA table : ~Fails(table))]

\* the elements that are not a table that fails, in the order of the sort
OtherElements ==
    SelectSeq(SortElements(CollectedElements),
              LAMBDA element : element.type = "text" \/ ~Fails(element.content))

\* C11: a table of the page whose grid cannot be extracted or rendered is
\* converted to the empty string, and the page's Markdown is the renderings that
\* are not blank of all the other elements, in their sorted order, joined by a
\* blank line: what the page gives without the tables that fail.
C11_FailedTableContributesNothing ==
    pc = "returned" =>
        /\ \A i \in FailedTables : _convert_table_to_markdown(call.page.tables[i]) = <<>>
        /\ LET mds == [i \in 1..Len(OtherElements) |-> RenderElement(OtherElements[i])]
           IN  ret = Join(SelectSeq(mds, LAMBDA md : Strip(md) # <<>>), <<"\n", "\n">>)
        /\ ret = _process_page(PageWithoutFailedTables)

\* C11 witness: a page with a table whose extract() raises and a table whose
\* grid raises after its header was rendered, both between text blocks that are
\* returned in order
C11_Witness ==
    /\ pc = "returned"
    /\ call.page.tables = <<MalformedTable, RaisingTable>>
    /\ FailedTables = {1, 2}
    /\ RenderedBefore(MalformedTable.data[1], 2) # <<>>
    /\ SplitParts(ret) = <<<<"a">>, <<"b">>, <<"c">>>>

====
